---- MODULE Spec2Model ----
(***************************************************************************)
(* envconfig: binding of a configuration record to environment variables.  *)
(* Strings are sequences of one-character strings, so that key derivation, *)
(* tag parsing and tokenizing are computed character by character.         *)
(***************************************************************************)
EXTENDS Integers, Sequences, FiniteSets, TLC

(* ------------------------------------------------------------------ *)
(* Characters and strings                                              *)
(* ------------------------------------------------------------------ *)

LowerLetters == <<"a","b","c","d","e","f","g","h","i","j","k","l","m",
                  "n","o","p","q","r","s","t","u","v","w","x","y","z">>

UpperLetters == <<"A","B","C","D","E","F","G","H","I","J","K","L","M",
                  "N","O","P","Q","R","S","T","U","V","W","X","Y","Z">>

Digits == <<"0","1","2","3","4","5","6","7","8","9">>

\* Let(v, F) names the value v inside F: a local variable of the code.
Let(v, F(_)) == F(v)

IndexIn(c, tbl) ==
  IF \E i \in 1..Len(tbl) : tbl[i] = c
    THEN CHOOSE i \in 1..Len(tbl) : tbl[i] = c
    ELSE 0

IsLower(c) == IndexIn(c, LowerLetters) # 0

IsUpper(c) == IndexIn(c, UpperLetters) # 0

IsDigit(c) == IndexIn(c, Digits) # 0

ToUpperChar(c) == IF IsLower(c) THEN UpperLetters[IndexIn(c, LowerLetters)] ELSE c

ToLowerChar(c) == IF IsUpper(c) THEN LowerLetters[IndexIn(c, UpperLetters)] ELSE c

\* Byte value of a character, the order sort.Strings compares by.
CharCode(c) ==
  IF IsDigit(c) THEN 47 + IndexIn(c, Digits)
  ELSE IF IsUpper(c) THEN 64 + IndexIn(c, UpperLetters)
  ELSE IF IsLower(c) THEN 96 + IndexIn(c, LowerLetters)
  ELSE IF c = "_" THEN 95
  ELSE IF c = "." THEN 46
  ELSE IF c = "," THEN 44
  ELSE IF c = "-" THEN 45
  ELSE IF c = ";" THEN 59
  ELSE IF c = "=" THEN 61
  ELSE IF c = "{" THEN 123
  ELSE IF c = "}" THEN 125
  ELSE 33

ToUpper(s) == [i \in 1..Len(s) |-> ToUpperChar(s[i])]

ToLower(s) == [i \in 1..Len(s) |-> ToLowerChar(s[i])]

\* strings.Replace(s, old, new, -1) for one-character old and new.
Replace(s, old, new) == [i \in 1..Len(s) |-> IF s[i] = old THEN new ELSE s[i]]

HasPrefix(s, p) == Len(s) >= Len(p) /\ SubSeq(s, 1, Len(p)) = p

TrimPrefix(s, p) == IF HasPrefix(s, p) THEN SubSeq(s, Len(p) + 1, Len(s)) ELSE s

RECURSIVE Split(_, _)
\* strings.Split(s, sep) for a one-character sep: always at least one token.
Split(s, sep) ==
  IF \E i \in 1..Len(s) : s[i] = sep
    THEN LET i == CHOOSE j \in 1..Len(s) :
                    s[j] = sep /\ \A k \in 1..(j - 1) : s[k] # sep
         IN  <<SubSeq(s, 1, i - 1)>> \o Split(SubSeq(s, i + 1, Len(s)), sep)
    ELSE <<s>>

RECURSIVE Concat(_)
Concat(ss) == IF ss = <<>> THEN <<>> ELSE Head(ss) \o Concat(Tail(ss))

\* Byte-wise lexicographic order of two strings.
StrLess(a, b) ==
  \/ Len(a) < Len(b) /\ SubSeq(b, 1, Len(a)) = a
  \/ \E i \in 1..Len(a) :
        /\ i <= Len(b)
        /\ SubSeq(a, 1, i - 1) = SubSeq(b, 1, i - 1)
        /\ CharCode(a[i]) < CharCode(b[i])

RECURSIVE SortStrings(_)
\* sort.Strings over a set of distinct strings.
SortStrings(S) ==
  IF S = {} THEN <<>>
  ELSE LET m == CHOOSE x \in S : \A y \in S \ {x} : StrLess(x, y)
       IN  <<m>> \o SortStrings(S \ {m})

(* ------------------------------------------------------------------ *)
(* Key derivation                                                      *)
(* ------------------------------------------------------------------ *)

combineName(parentName, name) ==
  IF parentName = <<>> THEN name ELSE parentName \o <<".">> \o name

\* The one key readValue probes: the custom name, or the upper-cased path
\* with every '.' replaced by '_'.
readValueKey(ctx) ==
  IF ctx.customName = <<>>
    THEN ToUpper(Replace(ctx.name, ".", "_"))
    ELSE ctx.customName

\* A spelling that marks no word boundary.
explodedNameDotsOnly(name) == Replace(name, ".", "_")

\* The spelling with an underscore at every word boundary.
explodedName(name) ==
  Concat([i \in 1..Len(name) |->
    IF name[i] = "." THEN <<"_">>
    ELSE IF /\ i > 1
            /\ IsUpper(name[i])
            /\ name[i - 1] # "."
            /\ \/ IsLower(name[i - 1])
               \/ (i < Len(name) /\ IsLower(name[i + 1]))
      THEN <<"_", name[i]>>
      ELSE <<name[i]>>])

plainName(name) == Replace(name, ".", "_")

makeAllPossibleKeys(ctx) ==
  IF ctx.customName # <<>>
    THEN <<ctx.customName>>
    ELSE SortStrings({ ToUpper(explodedName(ctx.name)), ToLower(explodedName(ctx.name)),
                       ToUpper(plainName(ctx.name)), ToLower(plainName(ctx.name)) })

(* ------------------------------------------------------------------ *)
(* Errors                                                              *)
(* ------------------------------------------------------------------ *)

\* An error value: its kind, the key or raw string its message prints, and
\* the two counts of the struct-token message.
MkErr(e, key, raw, got, want) ==
  [e |-> e, key |-> key, raw |-> raw, got |-> got, want |-> want]

NoErr == MkErr("nil", <<>>, <<>>, 0, 0)

ErrUnexportedField == MkErr("unexported", <<>>, <<>>, 0, 0)

ErrNotAPointer == MkErr("notpointer", <<>>, <<>>, 0, 0)

ErrInvalidValueKind == MkErr("invalidkind", <<>>, <<>>, 0, 0)

ErrKeyNotFound(key) == MkErr("notfound", key, <<>>, 0, 0)

\* The strconv and time errors print the raw string they were given.
ErrParse(raw) == MkErr("parse", <<>>, raw, 0, 0)

\* base64.CorruptInputError prints the offset of the illegal byte and
\* nothing of the input (the offset is left out here).
ErrCorruptInput == MkErr("corrupt", <<>>, <<>>, 0, 0)

ErrUnmarshal(raw) == MkErr("unmarshal", <<>>, raw, 0, 0)

ErrTokenCount(got, want) == MkErr("tokencount", <<>>, <<>>, got, want)

ErrEmptyToken == MkErr("emptytoken", <<>>, <<>>, 0, 0)

ErrUnsupported == MkErr("unsupported", <<>>, <<>>, 0, 0)

\* A run-time panic of the reflect package or of a slice expression: the
\* call does not return.
Panic == MkErr("panic", <<>>, <<>>, 0, 0)

(* ------------------------------------------------------------------ *)
(* Types and values                                                    *)
(* ------------------------------------------------------------------ *)

\* A type is [kind, um] (+ elem for "ptr" and "slice", + fields for
\* "struct"); um says that the pointer to the type implements Unmarshaler.
\* A field is [name, tag, type]; a field is exported when its name starts
\* with an upper-case letter.
Scalar(kind) == [kind |-> kind, um |-> FALSE]

PtrTo(t) == [kind |-> "ptr", um |-> FALSE, elem |-> t]

SliceOf(t) == [kind |-> "slice", um |-> FALSE, elem |-> t]

StructOf(fields) == [kind |-> "struct", um |-> FALSE, fields |-> fields]

Field(name, tag, type) == [name |-> name, tag |-> tag, type |-> type]

IsExported(name) == Len(name) > 0 /\ IsUpper(name[1])

NumField(t) == Len(t.fields)

RECURSIVE Zero(_)
\* The zero value of a type: what reflect.New(t).Elem() and a fresh
\* declaration hold.
Zero(t) ==
  CASE t.kind = "string" -> <<>>
    [] t.kind \in {"int", "uint", "uint8", "duration"} -> 0
    [] t.kind = "float" -> [int |-> 0, frac |-> <<>>]
    [] t.kind = "bool" -> FALSE
    [] t.kind = "slice" -> [elems |-> <<>>, cap |-> 0]
    [] t.kind = "ptr" -> [nil |-> TRUE, fresh |-> FALSE, elem |-> Zero(t.elem)]
    [] t.kind = "struct" -> [i \in 1..Len(t.fields) |-> Zero(t.fields[i].type)]
    [] OTHER -> <<>>

\* reflect.New(t): a pointer this call allocated, to a zero pointee.
NewPtr(t) == [nil |-> FALSE, fresh |-> TRUE, elem |-> Zero(t)]

byteSliceType == SliceOf(Scalar("uint8"))

isDurationField(t) == t.kind = "duration"

\* t.Implements(unmarshalerType): the method has a pointer receiver, so the
\* pointer type has it and the type itself has not.
Implements(t) == t.kind = "ptr" /\ t.elem.um

isUnmarshaler(t) == Implements(t) \/ Implements(PtrTo(t))

(* ------------------------------------------------------------------ *)
(* Parsing of scalars                                                  *)
(* ------------------------------------------------------------------ *)

AllDigits(s) == Len(s) > 0 /\ \A i \in 1..Len(s) : IsDigit(s[i])

RECURSIVE DigitsValue(_)
DigitsValue(s) ==
  IF s = <<>> THEN 0
  ELSE 10 * DigitsValue(SubSeq(s, 1, Len(s) - 1)) + (IndexIn(s[Len(s)], Digits) - 1)

\* Every parser returns [ok, val].
\* strconv.ParseInt(str, 10, 64); the strings of the model stay far below 64 bits.
ParseInt(s) ==
  IF Len(s) > 0 /\ s[1] \in {"-", "+"} /\ AllDigits(Tail(s))
    THEN [ok |-> TRUE, val |-> IF s[1] = "-" THEN 0 - DigitsValue(Tail(s)) ELSE DigitsValue(Tail(s))]
  ELSE IF AllDigits(s) THEN [ok |-> TRUE, val |-> DigitsValue(s)]
  ELSE [ok |-> FALSE, val |-> 0]

\* strconv.ParseUint(str, 10, 64): no sign.
ParseUint(s) ==
  IF AllDigits(s) THEN [ok |-> TRUE, val |-> DigitsValue(s)] ELSE [ok |-> FALSE, val |-> 0]

TrueSpellings == { <<"1">>, <<"t">>, <<"T">>, <<"T","R","U","E">>,
                   <<"t","r","u","e">>, <<"T","r","u","e">> }

FalseSpellings == { <<"0">>, <<"f">>, <<"F">>, <<"F","A","L","S","E">>,
                    <<"f","a","l","s","e">>, <<"F","a","l","s","e">> }

ParseBool(s) ==
  IF s \in TrueSpellings THEN [ok |-> TRUE, val |-> TRUE]
  ELSE IF s \in FalseSpellings THEN [ok |-> TRUE, val |-> FALSE]
  ELSE [ok |-> FALSE, val |-> FALSE]

\* strconv.ParseFloat on plain decimals: [sign] digits [ '.' digits ]; the
\* value keeps the integer part and the digits of the fraction.
ParseFloat(s) ==
  LET neg  == Len(s) > 0 /\ s[1] = "-"
      body == IF Len(s) > 0 /\ s[1] \in {"-", "+"} THEN Tail(s) ELSE s
      parts == Split(body, ".")
  IN  IF Len(parts) = 1 /\ AllDigits(parts[1])
        THEN [ok |-> TRUE, val |-> [int |-> IF neg THEN 0 - DigitsValue(parts[1]) ELSE DigitsValue(parts[1]),
                                    frac |-> <<>>]]
      ELSE IF Len(parts) = 2 /\ AllDigits(parts[1]) /\ AllDigits(parts[2])
        THEN [ok |-> TRUE, val |-> [int |-> IF neg THEN 0 - DigitsValue(parts[1]) ELSE DigitsValue(parts[1]),
                                    frac |-> parts[2]]]
      ELSE [ok |-> FALSE, val |-> [int |-> 0, frac |-> <<>>]]

\* Milliseconds per unit of time.ParseDuration (the units below a
\* millisecond are left out: a duration is counted in milliseconds here).
UnitMillis(u) ==
  CASE u = <<"m","s">> -> 1
    [] u = <<"s">> -> 1000
    [] u = <<"m">> -> 60000
    [] u = <<"h">> -> 3600000
    [] OTHER -> 0

RECURSIVE ParseDurationGroups(_)
\* One or more groups of digits followed by a unit.
ParseDurationGroups(s) ==
  LET nd == IF \E i \in 1..Len(s) : ~IsDigit(s[i])
              THEN (CHOOSE i \in 1..Len(s) : ~IsDigit(s[i]) /\ \A k \in 1..(i - 1) : IsDigit(s[k])) - 1
              ELSE Len(s)
      rest == SubSeq(s, nd + 1, Len(s))
      nu == IF \E i \in 1..Len(rest) : IsDigit(rest[i])
              THEN (CHOOSE i \in 1..Len(rest) : IsDigit(rest[i]) /\ \A k \in 1..(i - 1) : ~IsDigit(rest[k])) - 1
              ELSE Len(rest)
      unit == SubSeq(rest, 1, nu)
      more == SubSeq(rest, nu + 1, Len(rest))
  IN  IF nd = 0 \/ nu = 0 \/ UnitMillis(unit) = 0
        THEN [ok |-> FALSE, val |-> 0]
      ELSE IF more = <<>>
        THEN [ok |-> TRUE, val |-> DigitsValue(SubSeq(s, 1, nd)) * UnitMillis(unit)]
      ELSE LET r == ParseDurationGroups(more)
           IN  [ok |-> r.ok, val |-> DigitsValue(SubSeq(s, 1, nd)) * UnitMillis(unit) + r.val]

\* time.ParseDuration: [sign] "0", or [sign] groups.
ParseDuration(s) ==
  LET neg  == Len(s) > 0 /\ s[1] = "-"
      body == IF Len(s) > 0 /\ s[1] \in {"-", "+"} THEN Tail(s) ELSE s
      r    == IF body = <<"0">> THEN [ok |-> TRUE, val |-> 0]
              ELSE IF body = <<>> THEN [ok |-> FALSE, val |-> 0]
              ELSE ParseDurationGroups(body)
  IN  [ok |-> r.ok, val |-> IF neg THEN 0 - r.val ELSE r.val]

Base64Alphabet == UpperLetters \o LowerLetters \o Digits \o <<"+", "/">>

RECURSIVE Base64Groups(_)
\* Four characters make three bytes; a group may end in one or two '='.
Base64Groups(s) ==
  IF s = <<>> THEN [ok |-> TRUE, val |-> <<>>]
  ELSE IF Len(s) < 4 THEN [ok |-> FALSE, val |-> <<>>]
  ELSE LET g == SubSeq(s, 1, 4)
           last == Len(s) = 4
           pad == IF last /\ g[3] = "=" /\ g[4] = "=" THEN 2
                  ELSE IF last /\ g[4] = "=" THEN 1 ELSE 0
           data == SubSeq(g, 1, 4 - pad)
           okc == \A i \in 1..Len(data) : IndexIn(data[i], Base64Alphabet) # 0
           six(i) == IF i <= Len(data) THEN IndexIn(data[i], Base64Alphabet) - 1 ELSE 0
           bits == ((six(1) * 64 + six(2)) * 64 + six(3)) * 64 + six(4)
           bytes == << bits \div 65536, (bits \div 256) % 256, bits % 256 >>
           r == Base64Groups(SubSeq(s, 5, Len(s)))
       IN  IF ~okc THEN [ok |-> FALSE, val |-> <<>>]
           ELSE [ok |-> r.ok, val |-> SubSeq(bytes, 1, 3 - pad) \o r.val]

\* base64.StdEncoding.DecodeString.
DecodeString(s) == Base64Groups(s)

(* ------------------------------------------------------------------ *)
(* Tags, the environment and the lookup of one value                   *)
(* ------------------------------------------------------------------ *)

DefaultPrefix == <<"d","e","f","a","u","l","t","=">>

RECURSIVE parseTagTokens(_, _)
\* The loop of parseTag over the tokens of the tag, later tokens overwriting.
parseTagTokens(tokens, tag) ==
  IF tokens = <<>> THEN tag
  ELSE LET v == Head(tokens)
           next == IF v = <<"-">> THEN [tag EXCEPT !.skip = TRUE]
                   ELSE IF v = <<"o","p","t","i","o","n","a","l">> THEN [tag EXCEPT !.optional = TRUE]
                   ELSE IF HasPrefix(v, DefaultPrefix)
                     THEN [tag EXCEPT !.defaultVal = TrimPrefix(v, DefaultPrefix)]
                   ELSE [tag EXCEPT !.customName = v]
       IN  parseTagTokens(Tail(tokens), next)

parseTag(s) ==
  parseTagTokens(Split(s, ","),
                 [customName |-> <<>>, optional |-> FALSE, skip |-> FALSE, defaultVal |-> <<>>])

\* os.Getenv: the value of the key, empty when the key is not set.
Getenv(e, key) == IF key \in DOMAIN e THEN e[key] ELSE <<>>

\* A lookup that prefers the default to the environment.
readValueDefaultFirst(ctx, e) ==
  IF ctx.defaultVal # <<>>
    THEN [str |-> ctx.defaultVal, err |-> NoErr, key |-> readValueKey(ctx)]
  ELSE IF Getenv(e, readValueKey(ctx)) # <<>>
    THEN [str |-> Getenv(e, readValueKey(ctx)), err |-> NoErr, key |-> readValueKey(ctx)]
  ELSE IF ctx.optional THEN [str |-> <<>>, err |-> NoErr, key |-> readValueKey(ctx)]
  ELSE [str |-> <<>>, err |-> ErrKeyNotFound(readValueKey(ctx)), key |-> readValueKey(ctx)]

\* readValue returns [str, err, key]: the environment first, then the
\* default, then nothing for an optional field, then the error.
readValue(ctx, e) ==
  LET key == readValueKey(ctx)
      str == Getenv(e, key)
  IN  IF str # <<>> THEN [str |-> str, err |-> NoErr, key |-> key]
      ELSE IF ctx.defaultVal # <<>> THEN [str |-> ctx.defaultVal, err |-> NoErr, key |-> key]
      ELSE IF ctx.optional THEN [str |-> <<>>, err |-> NoErr, key |-> key]
      ELSE [str |-> <<>>, err |-> ErrKeyNotFound(key), key |-> key]

(* ------------------------------------------------------------------ *)
(* The tokenizer of slice values                                       *)
(* ------------------------------------------------------------------ *)

BraceDepth(s) ==
  Cardinality({i \in 1..Len(s) : s[i] = "{"}) - Cardinality({i \in 1..Len(s) : s[i] = "}"})

RECURSIVE sliceTokens(_, _)
\* The tokens scan() and text() yield: str cut at every separator that is
\* not inside a {...} span; an empty string has no token.
sliceTokens(str, sep) ==
  IF str = <<>> THEN <<>>
  ELSE IF \E i \in 1..Len(str) : str[i] = sep /\ BraceDepth(SubSeq(str, 1, i - 1)) = 0
    THEN LET i == CHOOSE j \in 1..Len(str) :
                    /\ str[j] = sep /\ BraceDepth(SubSeq(str, 1, j - 1)) = 0
                    /\ \A k \in 1..(j - 1) :
                          ~(str[k] = sep /\ BraceDepth(SubSeq(str, 1, k - 1)) = 0)
         IN  <<SubSeq(str, 1, i - 1)>> \o sliceTokens(SubSeq(str, i + 1, Len(str)), sep)
    ELSE <<str>>

\* newSliceTokenizer(str): the caller names no separator, the tokenizer
\* cuts at ','.
newSliceTokenizer(str) == sliceTokens(str, ",")

(* ------------------------------------------------------------------ *)
(* Custom unmarshalers                                                 *)
(* ------------------------------------------------------------------ *)

\* time.Time as a record: the fields a walk of the record would meet.
LocationType == StructOf(<< Field(<<"n","a","m","e">>, <<>>, Scalar("string")) >>)

TimeFields ==
  << Field(<<"w","a","l","l">>, <<>>, Scalar("uint")),
     Field(<<"e","x","t">>, <<>>, Scalar("int")),
     Field(<<"l","o","c">>, <<>>, PtrTo(LocationType)) >>

\* type dateUnmarshaller time.Time, with Unmarshal on its pointer.
dateUnmarshaller == [kind |-> "struct", um |-> TRUE, fields |-> TimeFields]

\* type connectionType uint, with Unmarshal on its pointer.
connectionType == [kind |-> "uint", um |-> TRUE]

\* The layout "2006-01-02": four digits, '-', two digits, '-', two digits.
IsDate(s) ==
  /\ Len(s) = 10
  /\ s[5] = "-" /\ s[8] = "-"
  /\ \A i \in {1, 2, 3, 4, 6, 7, 9, 10} : IsDigit(s[i])

\* What Unmarshal stores for a type, [ok, val].
Unmarshal(t, s) ==
  IF t.kind = "struct"
    THEN IF IsDate(s)
           THEN [ok |-> TRUE,
                 val |-> << 0, DigitsValue(SubSeq(s, 1, 4)) * 10000
                               + DigitsValue(SubSeq(s, 6, 7)) * 100
                               + DigitsValue(SubSeq(s, 9, 10)),
                            Zero(PtrTo(LocationType)) >>]
           ELSE [ok |-> FALSE, val |-> Zero(t)]
  ELSE IF s = <<"t","l","s">> THEN [ok |-> TRUE, val |-> 0]
  ELSE IF s = <<"i","n","s","e","c","u","r","e">> THEN [ok |-> TRUE, val |-> 1]
  ELSE [ok |-> FALSE, val |-> 0]

\* parseWithUnmarshaler returns [v, err]: Unmarshal runs on the pointer
\* the value holds, or on the address of the value.
parseWithUnmarshaler(t, v, str) ==
  IF Implements(t)
    THEN LET r == Unmarshal(t.elem, str)
         IN  IF ~r.ok THEN [v |-> v, err |-> ErrUnmarshal(str)]
             ELSE IF v.nil THEN [v |-> v, err |-> Panic]
             ELSE [v |-> [v EXCEPT !.elem = r.val], err |-> NoErr]
    ELSE LET r == Unmarshal(t, str)
         IN  IF ~r.ok THEN [v |-> v, err |-> ErrUnmarshal(str)]
             ELSE [v |-> r.val, err |-> NoErr]

(* ------------------------------------------------------------------ *)
(* Coercion of one raw string into one value                           *)
(* ------------------------------------------------------------------ *)

\* Every function below takes a reflect.Value as its type t, its content v
\* and ro (the value was reached through an unexported field, CanSet is
\* false), and returns the content it leaves behind with the error.
parseDuration(v, str) ==
  LET r == ParseDuration(str)
  IN  IF r.ok THEN [v |-> r.val, err |-> NoErr] ELSE [v |-> v, err |-> ErrParse(str)]

parseBoolValue(v, str) ==
  LET r == ParseBool(str)
  IN  IF r.ok THEN [v |-> r.val, err |-> NoErr] ELSE [v |-> v, err |-> ErrParse(str)]

parseIntValue(v, str) ==
  LET r == ParseInt(str)
  IN  IF r.ok THEN [v |-> r.val, err |-> NoErr] ELSE [v |-> v, err |-> ErrParse(str)]

parseUintValue(v, str) ==
  LET r == ParseUint(str)
  IN  IF r.ok THEN [v |-> r.val, err |-> NoErr] ELSE [v |-> v, err |-> ErrParse(str)]

parseFloatValue(v, str) ==
  LET r == ParseFloat(str)
  IN  IF r.ok THEN [v |-> r.val, err |-> NoErr] ELSE [v |-> v, err |-> ErrParse(str)]

\* SetBytes on a value that cannot be set panics.
parseBytesValue(v, ro, str) ==
  LET r == DecodeString(str)
  IN  IF ~r.ok THEN [v |-> v, err |-> ErrCorruptInput]
      ELSE IF ro THEN [v |-> v, err |-> Panic]
      ELSE [v |-> [elems |-> r.val, cap |-> (Len(str) \div 4) * 3], err |-> NoErr]

RECURSIVE parseValue(_, _, _, _)
RECURSIVE parseStruct(_, _, _)
RECURSIVE parseStructFields(_, _, _, _)

parseValue(t, v, ro, str) ==
  IF ro THEN [v |-> v, err |-> ErrUnexportedField]
  ELSE IF isUnmarshaler(t) THEN parseWithUnmarshaler(t, v, str)
  ELSE IF isDurationField(t) THEN parseDuration(v, str)
  ELSE CASE t.kind = "bool" -> parseBoolValue(v, str)
         [] t.kind = "int" -> parseIntValue(v, str)
         [] t.kind \in {"uint", "uint8"} -> parseUintValue(v, str)
         [] t.kind = "float" -> parseFloatValue(v, str)
         [] t.kind = "ptr" ->
              Let(parseValue(t.elem, Zero(t.elem), FALSE, str), LAMBDA r :
                  [v |-> [nil |-> FALSE, fresh |-> TRUE, elem |-> r.v], err |-> r.err])
         [] t.kind = "string" -> [v |-> str, err |-> NoErr]
         [] t.kind = "struct" -> parseStruct(t, v, str)
         [] OTHER -> [v |-> v, err |-> ErrUnsupported]

\* The loop of parseStruct: field i takes token i, the first error ends it.
parseStructFields(t, v, tokens, i) ==
  IF i > NumField(t) THEN [v |-> v, err |-> NoErr]
  ELSE Let(parseValue(t.fields[i].type, v[i], ~IsExported(t.fields[i].name), tokens[i]),
           LAMBDA r :
             IF r.err # NoErr THEN [v |-> [v EXCEPT ![i] = r.v], err |-> r.err]
             ELSE parseStructFields(t, [v EXCEPT ![i] = r.v], tokens, i + 1))

\* token[1:len(token)-1] panics on a token shorter than two characters.
parseStruct(t, v, token) ==
  IF Len(token) < 2 THEN [v |-> v, err |-> Panic]
  ELSE LET tokens == Split(SubSeq(token, 2, Len(token) - 1), ",")
       IN  IF Len(tokens) = 0 THEN [v |-> v, err |-> ErrEmptyToken]
           ELSE IF Len(tokens) # NumField(t)
             THEN [v |-> v, err |-> ErrTokenCount(Len(tokens), NumField(t))]
           ELSE parseStructFields(t, v, tokens, 1)

RECURSIVE setSliceElems(_, _, _)
\* The loop of setSliceField: every token is parsed into a new element and
\* appended; [elems, err].
setSliceElems(elType, tokens, elems) ==
  IF tokens = <<>> THEN [elems |-> elems, err |-> NoErr]
  ELSE Let(parseValue(elType, Zero(elType), FALSE, Head(tokens)), LAMBDA r :
             IF r.err # NoErr THEN [elems |-> elems, err |-> r.err]
             ELSE setSliceElems(elType, Tail(tokens), Append(elems, r.v)))

\* The slice starts as MakeSlice(type, value.Len(), value.Cap()); value.Set
\* panics on a value that cannot be set.
setSliceField(t, v, ro, str) ==
  Let(setSliceElems(t.elem, newSliceTokenizer(str),
                    [i \in 1..Len(v.elems) |-> Zero(t.elem)]), LAMBDA r :
      IF r.err # NoErr THEN [v |-> v, err |-> r.err]
      ELSE IF ro THEN [v |-> v, err |-> Panic]
      ELSE [v |-> [elems |-> r.elems,
                   cap |-> IF Len(r.elems) > v.cap THEN Len(r.elems) ELSE v.cap],
            err |-> NoErr])

(* ------------------------------------------------------------------ *)
(* The walk over a record                                              *)
(* ------------------------------------------------------------------ *)

\* A setField that parses the empty string of an optional field.
setFieldNoOptional(t, v, ro, ctx, e) ==
  Let(readValue(ctx, e), LAMBDA rv :
    Let(IF rv.err # NoErr THEN [v |-> v, err |-> rv.err]
        ELSE IF t.kind = "slice" /\ ~isUnmarshaler(t)
          THEN IF t = byteSliceType THEN parseBytesValue(v, ro, rv.str)
               ELSE setSliceField(t, v, ro, rv.str)
        ELSE parseValue(t, v, ro, rv.str),
        LAMBDA r : [v |-> r.v, err |-> r.err, log |-> <<rv.key>>]))

\* setField returns [v, err, log]: log lists the keys looked up.
setField(t, v, ro, ctx, e) ==
  Let(readValue(ctx, e), LAMBDA rv :
    Let(IF rv.err # NoErr THEN [v |-> v, err |-> rv.err]
        ELSE IF Len(rv.str) = 0 /\ ctx.optional THEN [v |-> v, err |-> NoErr]
        ELSE IF t.kind = "slice" /\ ~isUnmarshaler(t)
          THEN IF t = byteSliceType THEN parseBytesValue(v, ro, rv.str)
               ELSE setSliceField(t, v, ro, rv.str)
        ELSE parseValue(t, v, ro, rv.str),
        LAMBDA r : [v |-> r.v, err |-> r.err, log |-> <<rv.key>>]))

RECURSIVE readStruct(_, _, _, _, _)
RECURSIVE readStructFrom(_, _, _, _, _, _)
RECURSIVE readField(_, _, _, _, _, _, _)

\* The doRead switch on one field: a pointer is set to a new pointee and
\* the switch runs again on the pointee.
readField(t, v, ro, ctx, name, tag, e) ==
  CASE t.kind = "ptr" ->
         IF ro THEN [v |-> v, err |-> Panic, log |-> <<>>]
         ELSE Let(readField(t.elem, Zero(t.elem), ro, ctx, name, tag, e), LAMBDA r :
                  [v |-> [nil |-> FALSE, fresh |-> TRUE, elem |-> r.v],
                   err |-> r.err, log |-> r.log])
    [] t.kind = "struct" ->
         readStruct(t, v, ro, [name |-> combineName(ctx.name, name),
                               customName |-> <<>>,
                               optional |-> ctx.optional \/ tag.optional,
                               defaultVal |-> tag.defaultVal], e)
    [] OTHER ->
         setField(t, v, ro, [name |-> combineName(ctx.name, name),
                             customName |-> tag.customName,
                             optional |-> ctx.optional \/ tag.optional,
                             defaultVal |-> tag.defaultVal], e)

RECURSIVE readStructFromAll(_, _, _, _, _, _)
\* A loop that goes on after a failing field and returns the first error.
readStructFromAll(t, v, ro, ctx, e, i) ==
  IF i > NumField(t) THEN [v |-> v, err |-> NoErr, log |-> <<>>]
  ELSE Let(t.fields[i], LAMBDA f : Let(parseTag(f.tag), LAMBDA tag :
         IF tag.skip THEN readStructFromAll(t, v, ro, ctx, e, i + 1)
         ELSE Let(readField(f.type, v[i], ro \/ ~IsExported(f.name), ctx, f.name, tag, e),
                  LAMBDA r :
                    Let(readStructFromAll(t, [v EXCEPT ![i] = r.v], ro, ctx, e, i + 1),
                        LAMBDA rest :
                          [v |-> rest.v,
                           err |-> IF r.err # NoErr THEN r.err ELSE rest.err,
                           log |-> r.log \o rest.log]))))

\* The loop of readStruct from field i on.
readStructFrom(t, v, ro, ctx, e, i) ==
  IF i > NumField(t) THEN [v |-> v, err |-> NoErr, log |-> <<>>]
  ELSE Let(t.fields[i], LAMBDA f : Let(parseTag(f.tag), LAMBDA tag :
         IF tag.skip THEN readStructFrom(t, v, ro, ctx, e, i + 1)
         ELSE Let(readField(f.type, v[i], ro \/ ~IsExported(f.name), ctx, f.name, tag, e),
                  LAMBDA r :
                    IF r.err # NoErr
                      THEN [v |-> [v EXCEPT ![i] = r.v], err |-> r.err, log |-> r.log]
                      ELSE Let(readStructFrom(t, [v EXCEPT ![i] = r.v], ro, ctx, e, i + 1),
                               LAMBDA rest :
                                 [v |-> rest.v, err |-> rest.err,
                                  log |-> r.log \o rest.log]))))

\* value.NumField() panics on a value that is not a struct.
readStruct(t, v, ro, ctx, e) ==
  IF t.kind # "struct" THEN [v |-> v, err |-> Panic, log |-> <<>>]
  ELSE readStructFrom(t, v, ro, ctx, e, 1)

\* A root context that drops the prefix.
RootContextNoPrefix(prefix) ==
  [name |-> <<>>, customName |-> <<>>, optional |-> FALSE, defaultVal |-> <<>>]

\* &context{name: prefix}
RootContext(prefix) ==
  [name |-> prefix, customName |-> <<>>, optional |-> FALSE, defaultVal |-> <<>>]

\* InitWithPrefix(conf, prefix) on an argument of type t holding v.
InitWithPrefix(t, v, prefix, e) ==
  IF t.kind # "ptr" THEN [v |-> v, err |-> ErrNotAPointer, log |-> <<>>]
  ELSE IF v.nil THEN [v |-> v, err |-> ErrInvalidValueKind, log |-> <<>>]
  ELSE CASE t.elem.kind = "ptr" ->
              Let(readStruct(t.elem.elem, Zero(t.elem.elem), FALSE, RootContext(prefix), e),
                  LAMBDA r :
                    [v |-> [v EXCEPT !.elem = [nil |-> FALSE, fresh |-> TRUE, elem |-> r.v]],
                     err |-> r.err, log |-> r.log])
         [] t.elem.kind = "struct" ->
              Let(readStruct(t.elem, v.elem, FALSE, RootContext(prefix), e), LAMBDA r :
                  [v |-> [v EXCEPT !.elem = r.v], err |-> r.err, log |-> r.log])
         [] OTHER -> [v |-> v, err |-> ErrInvalidValueKind, log |-> <<>>]

(* ------------------------------------------------------------------ *)
(* The records, prefixes and environments the binds are run on         *)
(* ------------------------------------------------------------------ *)

TagNone == <<>>

TagOptional == <<"o","p","t","i","o","n","a","l">>

TagSkip == <<"-">>

TagCustom == <<"m","y","N","a","m","e">>

TagDefault(x) == DefaultPrefix \o x

Foo == <<"F","O","O">>

ShardType ==
  StructOf(<< Field(<<"N","a","m","e">>, TagNone, Scalar("string")),
              Field(<<"P","o","r","t">>, TagNone, Scalar("int")) >>)

\* A record of one field, as the element of a collection.
LabelType == StructOf(<< Field(<<"N","a","m","e">>, TagNone, Scalar("string")) >>)

DbType ==
  StructOf(<< Field(<<"H","o","s","t">>, TagNone, Scalar("string")),
              Field(<<"P","o","r","t">>, TagOptional, Scalar("int")) >>)

\* A pointer to a record that holds a pointer to a record.
NestType ==
  StructOf(<< Field(<<"U","s","e","r">>, TagOptional, Scalar("string")),
              Field(<<"I","n">>, TagNone,
                    PtrTo(StructOf(<< Field(<<"K","e","y">>, TagOptional, Scalar("string")) >>))) >>)

NameFields ==
  { Field(<<"N","a","m","e">>, tg, Scalar("string")) :
      tg \in { TagNone, TagOptional, TagSkip, TagCustom, TagDefault(<<"d","f","l","t">>),
               TagDefault(<<"d","f","l","t">>) \o <<",">> \o TagCustom } }
  \cup { Field(<<"n","a","m","e">>, tg, Scalar("string")) : tg \in { TagNone, TagOptional, TagSkip } }
  \cup { Field(<<"N","a","m","e">>, TagOptional, PtrTo(Scalar("string"))),
         Field(<<"n","a","m","e">>, TagNone, PtrTo(Scalar("string"))) }

TypedFields ==
  { Field(<<"P","o","r","t","s">>, TagNone, SliceOf(Scalar("int"))),
    Field(<<"P","o","r","t","s">>, TagDefault(<<"7",";","8">>), SliceOf(Scalar("int"))),
    Field(<<"p","o","r","t","s">>, TagOptional, SliceOf(Scalar("int"))),
    Field(<<"S","h","a","r","d","s">>, TagNone, SliceOf(ShardType)),
    Field(<<"S","h","a","r","d","s">>, TagDefault(<<"{","a",";","7","}",";","{","b",";","8","}">>),
          SliceOf(ShardType)),
    Field(<<"L","a","b","e","l","s">>, TagNone, SliceOf(LabelType)),
    Field(<<"D","a","t","a">>, TagOptional, byteSliceType),
    Field(<<"T","i","m","e","o","u","t">>, TagDefault(<<"1","m">>), Scalar("duration")),
    Field(<<"R","o","t","a","t","e">>, TagOptional, Scalar("bool")),
    Field(<<"R","a","t","e">>, TagOptional, Scalar("float")),
    Field(<<"C","o","n","n">>, TagNone, connectionType),
    Field(<<"D","a","t","e">>, TagNone, dateUnmarshaller),
    Field(<<"D","a","t","e">>, TagOptional, dateUnmarshaller),
    Field(<<"D","a","t","e">>, TagNone, PtrTo(dateUnmarshaller)) }

RecordFields ==
  { Field(<<"D","b">>, tg, DbType) : tg \in { TagNone, TagOptional, TagSkip } }
  \cup { Field(<<"D","b">>, tg, PtrTo(DbType)) : tg \in { TagNone, TagOptional } }
  \cup { Field(<<"d","b">>, TagOptional, DbType),
         Field(<<"N","e","s","t">>, TagNone, PtrTo(NestType)) }

PortField == Field(<<"P","o","r","t">>, TagNone, Scalar("int"))

SecondFields ==
  { Field(<<"P","o","r","t">>, tg, Scalar("int")) : tg \in { TagNone, TagOptional, TagDefault(<<"7">>) } }

FirstFields == NameFields \cup TypedFields \cup RecordFields

\* The fields declared next to a Port field.
PairFields ==
  { Field(<<"N","a","m","e">>, TagNone, Scalar("string")),
    Field(<<"N","a","m","e">>, TagOptional, Scalar("string")),
    Field(<<"n","a","m","e">>, TagOptional, Scalar("string")),
    Field(<<"D","b">>, TagNone, DbType),
    Field(<<"D","b">>, TagOptional, PtrTo(DbType)) }

\* The record types bound: one field, or two fields in either order.
RecordTypes ==
  { StructOf(<<a>>) : a \in FirstFields \cup SecondFields }
  \cup { StructOf(<<a, PortField>>) : a \in PairFields }
  \cup { StructOf(<<PortField, a>>) :
           a \in { Field(<<"N","a","m","e">>, TagNone, Scalar("string")),
                   Field(<<"D","b">>, TagNone, DbType) } }

\* The types of the argument conf: a pointer to a record, a pointer to a
\* pointer to a record, and the shapes the entry point has to refuse.
ArgTypes ==
  { PtrTo(t) : t \in RecordTypes }
  \cup { PtrTo(PtrTo(StructOf(<<a>>))) : a \in NameFields }
  \cup { StructOf(<<a>>) : a \in NameFields }
  \cup { Scalar("int"), PtrTo(Scalar("int")), PtrTo(PtrTo(Scalar("int"))),
         PtrTo(SliceOf(Scalar("int"))), PtrTo(PtrTo(PtrTo(DbType))) }

\* The values conf can hold before the first bind: &conf of a declared
\* variable, or a nil pointer of the type.
ArgValues(t) ==
  IF t.kind = "ptr"
    THEN { [nil |-> FALSE, fresh |-> FALSE, elem |-> Zero(t.elem)], Zero(t) }
    ELSE { Zero(t) }

Prefixes == { <<>>, Foo }

RECURSIVE Leaves(_, _, _, _, _)
\* The fields setField is called on below a type, in declaration order,
\* depth first, each with the context the walk hands to setField, whether a
\* pointer or an unexported field lies on the way, and the path of field
\* numbers from the root to the field, ending at the first pointer.
Leaves(t, ctx, viaPtr, ro, path) ==
  IF t.kind = "ptr" THEN Leaves(t.elem, ctx, TRUE, ro, path)
  ELSE IF t.kind = "struct"
    THEN Concat([i \in 1..NumField(t) |->
           LET f == t.fields[i]
               tag == parseTag(f.tag)
           IN  IF tag.skip THEN <<>>
               ELSE Leaves(f.type,
                           [name |-> combineName(ctx.name, f.name),
                            customName |-> tag.customName,
                            optional |-> ctx.optional \/ tag.optional,
                            defaultVal |-> tag.defaultVal],
                           viaPtr, ro \/ ~IsExported(f.name),
                           IF viaPtr THEN path ELSE Append(path, i))])
  ELSE << [ctx |-> ctx, type |-> t, viaPtr |-> viaPtr, ro |-> ro, path |-> path] >>

RootType(t) ==
  IF t.kind = "ptr" /\ t.elem.kind = "struct" THEN t.elem
  ELSE IF t.kind = "ptr" /\ t.elem.kind = "ptr" /\ t.elem.elem.kind = "struct" THEN t.elem.elem
  ELSE StructOf(<<>>)

LeavesOf(t, p) ==
  Leaves(RootType(t),
         [name |-> p, customName |-> <<>>, optional |-> FALSE, defaultVal |-> <<>>],
         FALSE, FALSE, <<>>)

\* The raw strings an environment variable of a leaf is set to: values the
\* type parses and values it does not.
RawFor(t) ==
  CASE t.kind = "string" -> { <<"f","o","o">>, <<"b","a","r">> }
    [] t.kind \in {"int", "uint"} /\ ~t.um -> { <<"7">>, <<"x">> }
    [] t.kind = "uint" /\ t.um -> { <<"t","l","s">>, <<"x">> }
    [] t.kind = "struct" /\ t.um -> { <<"2","0","2","0","-","0","6","-","2","0">>, <<"x">> }
    [] t.kind = "duration" -> { <<"1","2","0","s">>, <<"x">> }
    [] t.kind = "bool" -> { <<"t","r","u","e">>, <<"x">> }
    [] t.kind = "float" -> { <<"2",".","5">>, <<"x">> }
    [] t = byteSliceType -> { <<"R","k","9","P">>, <<"x">> }
    [] t = SliceOf(Scalar("int")) -> { <<"9",",","1">>, <<"7",";","8">> }
    [] t = SliceOf(ShardType) -> { <<"{","a",",","7","}",",","{","b",",","8","}">>,
                                   <<"{","a",";","7","}">>, <<"(","a",",","7",")">>,
                                   <<"x">> }
    [] t = SliceOf(LabelType) -> { <<"{","a","}">>, <<"x","a","y">> }
    [] OTHER -> { <<"x">> }

\* The keys a test sets for a type: the key of every leaf with and without
\* the prefix and its custom name, each with the values of its leaf or empty.
EnvChoices(t) ==
  UNION { UNION { { <<k, raw>> : k \in { readValueKey(lf.ctx),
                                         readValueKey([lf.ctx EXCEPT !.customName = <<>>]) },
                                 raw \in RawFor(lf.type) \cup { <<>> } } :
                  lf \in { LeavesOf(t, p)[i] : i \in 1..Len(LeavesOf(t, p)) } } :
          p \in Prefixes }

RECURSIVE ClearFresh(_, _)
\* The value as a new call meets it: no pointer in it is of this call.
ClearFresh(t, v) ==
  CASE t.kind = "ptr" -> [nil |-> v.nil, fresh |-> FALSE, elem |-> ClearFresh(t.elem, v.elem)]
    [] t.kind = "struct" -> [i \in 1..NumField(t) |-> ClearFresh(t.fields[i].type, v[i])]
    [] t.kind = "slice" ->
         [elems |-> [i \in 1..Len(v.elems) |-> ClearFresh(t.elem, v.elems[i])], cap |-> v.cap]
    [] OTHER -> v

(* ------------------------------------------------------------------ *)
(* The state machine: a program sets its environment and binds         *)
(* ------------------------------------------------------------------ *)

MaxSetenv == 2

MaxCalls == 2

MaxNameLen == 4

VARIABLES
  argT,     \* the type of the argument conf
  conf,     \* the value conf holds
  conf0,    \* the value conf held when the last bind started
  prefix,   \* the prefix of the last bind
  env,      \* the process environment: key -> value, for the keys set
  err,      \* the error the last bind returned
  log,      \* the keys the last bind looked up, in order
  calls,    \* binds so far
  pc,       \* "idle", "called" right after a bind, "crashed" after a panic
  keyCtx,   \* the context handed to makeAllPossibleKeys
  keys,     \* the keys it returned
  stack     \* the calls of readStruct in progress, the innermost last

vars == <<argT, conf, conf0, prefix, env, err, log, calls, pc, keyCtx, keys, stack>>

NoKeyCtx == [name |-> <<>>, customName |-> <<>>]

Init ==
  /\ argT \in ArgTypes
  /\ conf \in ArgValues(argT)
  /\ conf0 = conf
  /\ prefix = <<>>
  /\ env = <<>>
  /\ err = NoErr
  /\ log = <<>>
  /\ calls = 0
  /\ pc = "idle"
  /\ keyCtx = NoKeyCtx
  /\ keys = <<>>
  /\ stack = <<>>

\* os.Setenv(k, v) before a bind.
Setenv ==
  /\ pc # "crashed"
  /\ calls < MaxCalls
  /\ \E kv \in EnvChoices(argT) :
       /\ kv[1] \in DOMAIN env \/ Cardinality(DOMAIN env) < MaxSetenv
       /\ env' = [k \in DOMAIN env \cup {kv[1]} |-> IF k = kv[1] THEN kv[2] ELSE env[k]]
  /\ pc' = "idle"
  /\ UNCHANGED <<argT, conf, conf0, prefix, err, log, calls, keyCtx, keys, stack>>

Bind(p) ==
  /\ pc # "crashed"
  /\ calls < MaxCalls
  /\ \E c0 \in {ClearFresh(argT, conf)} : \E r \in {InitWithPrefix(argT, c0, p, env)} :
      /\ conf0' = c0
      /\ conf' = r.v
      /\ err' = r.err
      /\ log' = r.log
      /\ prefix' = p
      /\ calls' = calls + 1
      /\ pc' = IF r.err = Panic THEN "crashed" ELSE "called"
      /\ UNCHANGED <<argT, env, keyCtx, keys, stack>>

\* Init(conf): InitWithPrefix with the empty prefix.
CallInit == Bind(<<>>)

CallInitWithPrefix == \E p \in Prefixes : Bind(p)

Next == Setenv \/ CallInit \/ CallInitWithPrefix

Spec == Init /\ [][Next]_vars

(* ------------------------------------------------------------------ *)
(* The key deriver on its own: contexts in, candidate keys out         *)
(* ------------------------------------------------------------------ *)

KeyAlphabet == { "a", "A", "B", "." }

\* A dotted path: identifiers joined by '.', none of them empty.
IsPath(s) ==
  /\ Len(s) > 0
  /\ s[1] # "." /\ s[Len(s)] # "."
  /\ \A i \in 1..(Len(s) - 1) : ~(s[i] = "." /\ s[i + 1] = ".")

\* The names of TestMakeAllPossibleKeys.
TestNames ==
  { <<"C","a","s","s","a","n","d","r","a","S","s","l","C","e","r","t">>,
    <<"C","a","s","s","a","n","d","r","a","S","S","L","C","e","r","t">>,
    <<"C","a","s","s","a","n","d","r","a",".","S","s","l","C","e","r","t">>,
    <<"C","a","s","s","a","n","d","r","a",".","S","S","L","C","e","r","t">>,
    <<"N","a","m","e">> }

KeyNames ==
  TestNames \cup
  { s \in UNION { [1..n -> KeyAlphabet] : n \in 1..MaxNameLen } : IsPath(s) }

KeyContexts ==
  { [name |-> n, customName |-> c] : n \in KeyNames, c \in { <<>>, TagCustom } }

InitKeys ==
  /\ argT = Scalar("int")
  /\ conf = 0
  /\ conf0 = 0
  /\ prefix = <<>>
  /\ env = <<>>
  /\ err = NoErr
  /\ log = <<>>
  /\ calls = 0
  /\ pc = "idle"
  /\ keyCtx \in KeyContexts
  /\ keys = <<>>
  /\ stack = <<>>

\* keys := makeAllPossibleKeys(ctx)
MakeKeys ==
  /\ pc = "idle"
  /\ keys' = makeAllPossibleKeys(keyCtx)
  /\ pc' = "called"
  /\ UNCHANGED <<argT, conf, conf0, prefix, env, err, log, calls, keyCtx, stack>>

NextKeys == MakeKeys

SpecKeys == InitKeys /\ [][NextKeys]_vars

(* ------------------------------------------------------------------ *)
(* The walk of one bind, one field at a time                           *)
(* ------------------------------------------------------------------ *)

\* The calls of readStruct kept on the stack; a deeper call takes the place
\* of the innermost one.
MaxDepth == 3

\* A declared type used by name, as a type can name itself behind a pointer.
Named(n) == [kind |-> "named", um |-> FALSE, name |-> n]

\* type Node struct{ Next *Node }
\* type OptNode struct{ Val int `envconfig:"optional"`; Next *OptNode `envconfig:"optional"` }
\* type ReqNode struct{ Val int; Next *ReqNode }
Declared(n) ==
  CASE n = "Node" ->
         StructOf(<< Field(<<"N","e","x","t">>, TagNone, PtrTo(Named("Node"))) >>)
    [] n = "OptNode" ->
         StructOf(<< Field(<<"V","a","l">>, TagOptional, Scalar("int")),
                     Field(<<"N","e","x","t">>, TagOptional, PtrTo(Named("OptNode"))) >>)
    [] n = "ReqNode" ->
         StructOf(<< Field(<<"V","a","l">>, TagNone, Scalar("int")),
                     Field(<<"N","e","x","t">>, TagNone, PtrTo(Named("ReqNode"))) >>)

\* The type a name stands for.
Underlying(t) == IF t.kind = "named" THEN Declared(t.name) ELSE t

RECURSIVE Indirect(_)
\* The doRead loop: a pointer is set to a new pointee and the switch runs
\* again on the pointee, until the field is no pointer.
Indirect(t) ==
  IF Underlying(t).kind = "ptr" THEN Indirect(Underlying(t).elem) ELSE Underlying(t)

RECURSIVE Unfold(_, _)
\* The type with every name replaced by its declaration, d times over.
Unfold(t, d) ==
  CASE t.kind = "named" -> IF d = 0 THEN t ELSE Unfold(Declared(t.name), d - 1)
    [] t.kind = "ptr" -> PtrTo(Unfold(t.elem, d))
    [] t.kind = "struct" ->
         StructOf([i \in 1..NumField(t) |->
                    Field(t.fields[i].name, t.fields[i].tag, Unfold(t.fields[i].type, d))])
    [] OTHER -> t

\* The record types walked: a plain field, a chain of pointers, records in
\* records by value and by pointer, a skipped field, an unexported pointer,
\* the records that refer to themselves through a pointer field, and a
\* record that holds one in an optional field.
WalkTypes ==
  { StructOf(<<PortField>>),
    StructOf(<< Field(<<"P","o","r","t">>, TagNone, PtrTo(PtrTo(Scalar("int")))) >>),
    StructOf(<< Field(<<"D","b">>, TagNone, DbType), PortField >>),
    StructOf(<< Field(<<"N","e","s","t">>, TagNone, PtrTo(NestType)) >>),
    StructOf(<< Field(<<"N","a","m","e">>, TagSkip, Scalar("string")), PortField >>),
    StructOf(<< Field(<<"n","a","m","e">>, TagNone, PtrTo(Scalar("string"))) >>),
    Named("Node"), Named("OptNode"), Named("ReqNode"),
    StructOf(<< Field(<<"L","i","s","t">>, TagOptional, PtrTo(Named("ReqNode"))) >>) }

\* The keys set before a walk: those of the fields above the depth at which
\* the stack is cut, each with the values of its field or empty.
WalkEnvChoices(t) ==
  UNION { { <<readValueKey(lf.ctx), raw>> : raw \in RawFor(lf.type) \cup { <<>> } } :
          lf \in { LeavesOf(PtrTo(Unfold(t.elem, MaxDepth - 1)), <<>>)[i] :
                     i \in 1..Len(LeavesOf(PtrTo(Unfold(t.elem, MaxDepth - 1)), <<>>)) } }

InitWalk ==
  /\ argT \in { PtrTo(t) : t \in WalkTypes }
  /\ conf = [nil |-> FALSE, fresh |-> FALSE, elem |-> Zero(argT.elem)]
  /\ conf0 = conf
  /\ prefix = <<>>
  /\ env = <<>>
  /\ err = NoErr
  /\ log = <<>>
  /\ calls = 0
  /\ pc = "idle"
  /\ keyCtx = NoKeyCtx
  /\ keys = <<>>
  /\ stack = <<>>

\* os.Setenv(k, v) before the bind.
WalkSetenv ==
  /\ pc = "idle"
  /\ \E kv \in WalkEnvChoices(argT) :
       /\ kv[1] \in DOMAIN env \/ Cardinality(DOMAIN env) < MaxSetenv
       /\ env' = [k \in DOMAIN env \cup {kv[1]} |-> IF k = kv[1] THEN kv[2] ELSE env[k]]
  /\ UNCHANGED <<argT, conf, conf0, prefix, err, log, calls, pc, keyCtx, keys, stack>>

\* One call of readStruct in progress: the record type, the field the loop
\* is at, the context of the call, whether the record was reached through
\* an unexported field, and deep: 0 for a call on the stack as it is, 1 and
\* 2 in turn for the calls that took the place of another on the stack.
Frame(t, ctx, ro, deep) == [t |-> t, i |-> 1, ctx |-> ctx, ro |-> ro, deep |-> deep]

Top == stack[Len(stack)]

\* The field the innermost loop is at, its tag, and whether it can be set.
TopField == Top.t.fields[Top.i]

TopTag == parseTag(TopField.tag)

TopRo == Top.ro \/ ~IsExported(TopField.name)

\* The innermost loop has a field to read.
AtField == pc = "walking" /\ Top.i <= NumField(Top.t)

\* i++ in the innermost loop.
Advance(stk) == [stk EXCEPT ![Len(stk)].i = @ + 1]

\* Init(conf) on a reference to a record: readStruct(elem, &context{}).
WalkStart ==
  /\ pc = "idle"
  /\ stack' = << Frame(Underlying(argT.elem), RootContext(<<>>), FALSE, 0) >>
  /\ pc' = "walking"
  /\ UNCHANGED <<argT, conf, conf0, prefix, env, err, log, calls, keyCtx, keys>>

\* if tag.skip { continue }
WalkSkip ==
  /\ AtField /\ TopTag.skip
  /\ stack' = Advance(stack)
  /\ UNCHANGED <<argT, conf, conf0, prefix, env, err, log, calls, pc, keyCtx, keys>>

\* field.Set on a pointer field that cannot be set panics.
WalkPanic ==
  /\ AtField /\ ~TopTag.skip
  /\ Underlying(TopField.type).kind = "ptr" /\ TopRo
  /\ pc' = "crashed"
  /\ err' = Panic
  /\ calls' = calls + 1
  /\ UNCHANGED <<argT, conf, conf0, prefix, env, log, keyCtx, keys, stack>>

\* case reflect.Struct: readStruct(field, &context{...}), after the pointers
\* on the way are set. Past MaxDepth the new call takes the place of the
\* innermost one and keeps its name: no key that long is set.
WalkDescend ==
  /\ AtField /\ ~TopTag.skip
  /\ ~(Underlying(TopField.type).kind = "ptr" /\ TopRo)
  /\ Indirect(TopField.type).kind = "struct"
  /\ stack' =
       IF Len(stack) < MaxDepth
         THEN Append(stack,
                Frame(Indirect(TopField.type),
                      [name |-> combineName(Top.ctx.name, TopField.name),
                       customName |-> <<>>,
                       optional |-> Top.ctx.optional \/ TopTag.optional,
                       defaultVal |-> TopTag.defaultVal],
                      TopRo, 0))
         ELSE [stack EXCEPT ![Len(stack)] =
                Frame(Indirect(TopField.type),
                      [name |-> Top.ctx.name,
                       customName |-> <<>>,
                       optional |-> Top.ctx.optional \/ TopTag.optional,
                       defaultVal |-> TopTag.defaultVal],
                      TopRo, IF Top.deep = 1 THEN 2 ELSE 1)]
  /\ UNCHANGED <<argT, conf, conf0, prefix, env, err, log, calls, pc, keyCtx, keys>>

\* The context readStruct hands to setField for the field the innermost
\* loop is at.
TopContext ==
  [name |-> combineName(Top.ctx.name, TopField.name),
   customName |-> TopTag.customName,
   optional |-> Top.ctx.optional \/ TopTag.optional,
   defaultVal |-> TopTag.defaultVal]

\* The innermost loop is at a field that goes to setField.
AtLeaf ==
  /\ AtField /\ ~TopTag.skip
  /\ ~(Underlying(TopField.type).kind = "ptr" /\ TopRo)
  /\ Indirect(TopField.type).kind # "struct"

\* default: err = setField(field, &context{...}); an error is returned
\* through every call in progress.
WalkSetField ==
  /\ AtLeaf
  /\ \E t \in {Indirect(TopField.type)} : \E ro \in {TopRo} : \E ctx \in {TopContext} :
     \E r \in {setField(t, Zero(t), ro, ctx, env)} :
       IF r.err = NoErr
         THEN /\ stack' = Advance(stack)
              /\ UNCHANGED <<err, calls, pc>>
         ELSE /\ stack' = <<>>
              /\ err' = r.err
              /\ calls' = calls + 1
              /\ pc' = IF r.err = Panic THEN "crashed" ELSE "called"
  /\ UNCHANGED <<argT, conf, conf0, prefix, env, log, keyCtx, keys>>

\* The loop of a call is over: return nil, to the loop of the caller or to
\* the caller of Init.
WalkReturn ==
  /\ pc = "walking" /\ Top.i > NumField(Top.t) /\ Top.deep = 0
  /\ IF Len(stack) = 1
       THEN /\ stack' = <<>>
            /\ err' = NoErr
            /\ calls' = calls + 1
            /\ pc' = "called"
       ELSE /\ stack' = Advance(SubSeq(stack, 1, Len(stack) - 1))
            /\ UNCHANGED <<err, calls, pc>>
  /\ UNCHANGED <<argT, conf, conf0, prefix, env, log, keyCtx, keys>>

\* A step of the bind in progress.
WalkStep == WalkStart \/ WalkSkip \/ WalkPanic \/ WalkDescend \/ WalkSetField \/ WalkReturn

NextWalk == WalkSetenv \/ WalkStep

\* The call runs on once made: a step that can be taken is taken.
SpecWalk == InitWalk /\ [][NextWalk]_vars /\ WF_vars(WalkStep)

(* ------------------------------------------------------------------ *)
(* What a bind is checked against                                      *)
(* ------------------------------------------------------------------ *)

\* A bind has returned or crashed.
Called == pc \in {"called", "crashed"}

\* The last bind got as far as the walk over a record.
Walked == argT.kind = "ptr" /\ ~conf0.nil /\ RootType(argT) # StructOf(<<>>)

Outcome == [v |-> conf, err |-> err, log |-> log]

\* The record the walk ran on.
RootValue == IF argT.elem.kind = "struct" THEN conf.elem ELSE conf.elem.elem

LeafSeq == LeavesOf(argT, prefix)

LeafSet == { LeafSeq[i] : i \in 1..Len(LeafSeq) }

\* The key derived from the prefix joined to the path of a leaf.
DerivedKey(lf) == ToUpper(Replace(lf.ctx.name, ".", "_"))

\* The key of a field of the root record under prefix p.
PrefixedKey(p, name) ==
  ToUpper(IF p = <<>> THEN name ELSE p \o <<"_">> \o name)

Restrict(e, K) == [k \in DOMAIN e \cap K |-> e[k]]

Required(lf) == ~lf.ctx.optional /\ lf.ctx.defaultVal = <<>>

\* Field i of the root record is an exported string field the walk reads.
RootString(i) ==
  /\ RootType(argT).fields[i].type = Scalar("string")
  /\ IsExported(RootType(argT).fields[i].name)
  /\ ~parseTag(RootType(argT).fields[i].tag).skip

FooName == <<"F","O","O","_","N","A","M","E">>

\* The bind reads nothing but the keys in K, fails on a required leaf among
\* leaves whose prefixed key is empty, and fills the string fields of the
\* root among fields from their prefixed keys.
PrefixedOnly(K, leaves, fields) ==
  /\ InitWithPrefix(argT, conf0, prefix, Restrict(env, K)) = Outcome
  /\ Walked =>
       \A i \in 1..Len(LeafSeq) :
         (LeafSeq[i] \in leaves /\ Required(LeafSeq[i])
            /\ Getenv(env, DerivedKey(LeafSeq[i])) = <<>>)
           => /\ err # NoErr
              /\ (i = 1 /\ ~LeafSeq[i].viaPtr) => err = ErrKeyNotFound(DerivedKey(LeafSeq[i]))
  /\ (Walked /\ err = NoErr) =>
       \A i \in fields :
         (RootString(i) /\ Getenv(env, PrefixedKey(prefix, RootType(argT).fields[i].name)) # <<>>)
           => RootValue[i] = Getenv(env, PrefixedKey(prefix, RootType(argT).fields[i].name))

NoCustomName(lf) == lf.ctx.customName = <<>>

RootValue0 == IF argT.elem.kind = "struct" THEN conf0.elem ELSE Zero(argT.elem.elem)

\* The one candidate key of a leaf.
KeyOf(lf) == IF NoCustomName(lf) THEN DerivedKey(lf) ELSE lf.ctx.customName

\* What the precedence rule gives a leaf: the environment, then the default,
\* then nothing for an optional leaf, then the error naming the key.
Expected(lf) ==
  IF Getenv(env, KeyOf(lf)) # <<>>
    THEN [str |-> Getenv(env, KeyOf(lf)), err |-> NoErr, key |-> KeyOf(lf)]
  ELSE IF lf.ctx.defaultVal # <<>>
    THEN [str |-> lf.ctx.defaultVal, err |-> NoErr, key |-> KeyOf(lf)]
  ELSE IF lf.ctx.optional THEN [str |-> <<>>, err |-> NoErr, key |-> KeyOf(lf)]
  ELSE [str |-> <<>>, err |-> ErrKeyNotFound(KeyOf(lf)), key |-> KeyOf(lf)]

\* Field i of the root record as a leaf.
RootLeaf(i) ==
  [ctx |-> [name |-> IF prefix = <<>> THEN RootType(argT).fields[i].name
                     ELSE prefix \o <<".">> \o RootType(argT).fields[i].name,
            customName |-> parseTag(RootType(argT).fields[i].tag).customName,
            optional |-> parseTag(RootType(argT).fields[i].tag).optional,
            defaultVal |-> parseTag(RootType(argT).fields[i].tag).defaultVal],
   type |-> RootType(argT).fields[i].type, viaPtr |-> FALSE, ro |-> FALSE, path |-> <<i>>]

Ascending(ks) == \A i \in 1..(Len(ks) - 1) : StrLess(ks[i], ks[i + 1])

\* An upper-case letter at position i of path n that starts a word.
WordBoundary(n, i) ==
  /\ i > 1
  /\ n[i] \in { UpperLetters[k] : k \in 1..Len(UpperLetters) }
  /\ n[i - 1] # "."
  /\ \/ n[i - 1] \in { LowerLetters[k] : k \in 1..Len(LowerLetters) }
     \/ i < Len(n) /\ n[i + 1] \in { LowerLetters[k] : k \in 1..Len(LowerLetters) }

\* e is n with every '.' turned into '_' and a '_' put before every
\* position in at: e read without those '_' is the plain spelling.
SpelledWith(n, at, e) ==
  /\ Len(e) = Len(n) + Cardinality(at)
  /\ \A i \in 1..Len(n) :
       /\ e[i + Cardinality({ j \in at : j <= i })] = IF n[i] = "." THEN "_" ELSE n[i]
       /\ i \in at => e[i + Cardinality({ j \in at : j <= i }) - 1] = "_"

Cassandra == <<"C","A","S","S","A","N","D","R","A">>

SslCert == <<"S","S","L","C","E","R","T">>

SslUnderCert == <<"S","S","L","_","C","E","R","T">>

\* The keys TestMakeAllPossibleKeys expects for a name.
TestKeys(n) ==
  IF n = <<"N","a","m","e">> THEN << <<"N","A","M","E">>, <<"n","a","m","e">> >>
  ELSE IF \E i \in 1..Len(n) : n[i] = "."
    THEN << Cassandra \o <<"_">> \o SslCert, Cassandra \o <<"_">> \o SslUnderCert,
            ToLower(Cassandra \o <<"_">> \o SslUnderCert), ToLower(Cassandra \o <<"_">> \o SslCert) >>
    ELSE << Cassandra \o SslCert, Cassandra \o <<"_">> \o SslUnderCert,
            ToLower(Cassandra \o <<"_">> \o SslUnderCert), ToLower(Cassandra \o SslCert) >>

RECURSIVE ValueAt(_, _)
\* The field of a record value at a path of field numbers.
ValueAt(v, path) == IF path = <<>> THEN v ELSE ValueAt(v[Head(path)], Tail(path))

\* A leaf the lookup gives nothing: optional by its own tag or an
\* ancestor's, no non-empty environment value, no default.
OptionalAbsent(lf) ==
  /\ lf.ctx.optional
  /\ lf.ctx.defaultVal = <<>>
  /\ Getenv(env, KeyOf(lf)) = <<>>

\* Every leaf among leaves that the lookup gives nothing is as it was
\* before the bind and is not the field the bind failed on; a bind on
\* nothing but such leaves returns no error.
OptionalUntouched(leaves) ==
  /\ \A lf \in leaves :
       OptionalAbsent(lf) =>
         /\ ValueAt(RootValue, lf.path) = ValueAt(RootValue0, lf.path)
         /\ err # ErrKeyNotFound(KeyOf(lf))
  /\ (leaves = LeafSet /\ \A lf \in LeafSet : OptionalAbsent(lf)) => err = NoErr

\* C4 (amended): a field is optional when its own tag or the tag of an
\* ancestor record field says optional. Every optional field that is not a
\* pointer and is not reached through a pointer, with no non-empty
\* environment value and no default, is exactly as it was before the bind,
\* and the bind produces no error for it.
C4_OptionalUntouched ==
  (Called /\ Walked) => OptionalUntouched({ lf \in LeafSet : ~lf.viaPtr })

\* C4 witness: an optional field that held a value before the bind and has
\* no environment value holds it after a successful bind.
C4_Witness ==
  /\ Called /\ Walked /\ err = NoErr
  /\ \E lf \in LeafSet :
       /\ OptionalAbsent(lf) /\ ~lf.viaPtr
       /\ ValueAt(RootValue0, lf.path) # Zero(lf.type)
       /\ ValueAt(RootValue, lf.path) = ValueAt(RootValue0, lf.path)

\* C4 as stated: whatever the type of the field, a pointer included.
C4_AsStated ==
  (Called /\ Walked) => OptionalUntouched(LeafSet)

\* The argument shapes the entry point takes: a pointer to a record or to a
\* pointer to a record.
Accepted(t) ==
  /\ t.kind = "ptr"
  /\ \/ t.elem.kind = "struct"
     \/ t.elem.kind = "ptr" /\ t.elem.elem.kind = "struct"

\* C5 as stated: an argument that is no pointer gives the not-a-pointer
\* error, a pointer to anything but a record or a pointer to a record gives
\* the invalid-value-kind error, in both cases nothing else happens, and the
\* call never crashes.
C5_AsStated ==
  (Called /\ ~Accepted(argT)) =>
    /\ pc # "crashed"
    /\ conf = conf0 /\ log = <<>>
    /\ err = IF argT.kind # "ptr" THEN ErrNotAPointer ELSE ErrInvalidValueKind

\* C5 witness of the part that holds: a record passed by value is refused
\* with the not-a-pointer error.
C5_Refused ==
  /\ Called /\ argT.kind = "struct"
  /\ err = ErrNotAPointer /\ conf = conf0

\* What setField does on one leaf by itself, from the value it held.
LeafResult(lf) ==
  setField(lf.type,
           IF lf.viaPtr THEN Zero(lf.type) ELSE ValueAt(RootValue0, lf.path),
           lf.ro, lf.ctx, env)

\* The paths of the first k leaves.
PathsUpTo(k) == { LeafSeq[j].path : j \in 1..k }

\* C6: fields are processed in declaration order, depth first, and the bind
\* stops at the first failing field: the keys looked up are those of the
\* leaves in that order up to the failing one, the error returned is the
\* error of that leaf and every leaf before it succeeds, no leaf after it is
\* looked up or mutated, and the leaves before it hold what the bind wrote.
C6_FirstFailureStops ==
  (Called /\ Walked /\ pc # "crashed") =>
    /\ Len(log) <= Len(LeafSeq)
    /\ \A j \in 1..Len(log) : log[j] = KeyOf(LeafSeq[j])
    /\ \A j \in 1..Len(log) :
         /\ j < Len(log) => LeafResult(LeafSeq[j]).err = NoErr
         /\ ~LeafSeq[j].viaPtr =>
              ValueAt(RootValue, LeafSeq[j].path) = LeafResult(LeafSeq[j]).v
    /\ IF err = NoErr
         THEN /\ Len(log) = Len(LeafSeq)
              /\ \A lf \in LeafSet : LeafResult(lf).err = NoErr
         ELSE /\ Len(log) >= 1
              /\ LeafResult(LeafSeq[Len(log)]).err = err
              /\ \A j \in (Len(log) + 1)..Len(LeafSeq) :
                   LeafSeq[j].path \notin PathsUpTo(Len(log)) =>
                     ValueAt(RootValue, LeafSeq[j].path) = ValueAt(RootValue0, LeafSeq[j].path)

\* C6 witness: the second field fails, the first field holds the value the
\* bind wrote and the bind returns the second field's error.
C6_Witness ==
  /\ Called /\ Walked /\ pc # "crashed"
  /\ err # NoErr
  /\ Len(log) = 2 /\ Len(LeafSeq) >= 2
  /\ ~LeafSeq[1].viaPtr
  /\ ValueAt(RootValue, LeafSeq[1].path) # ValueAt(RootValue0, LeafSeq[1].path)
  /\ LeafResult(LeafSeq[2]).err = err

\* The fields of the root record the walk does not skip.
Unskipped == { i \in 1..NumField(RootType(argT)) : ~parseTag(RootType(argT).fields[i].tag).skip }

\* The first field the walk reaches is field i.
FirstField(i) == i \in Unskipped /\ \A j \in Unskipped : i <= j

\* C7 as stated: an unexported field not tagged skip fails the bind with
\* ErrUnexportedField whatever its type, optional or not, with or without a
\* value in the environment; a field tagged '-' is never looked up, never
\* mutated and never an error.
C7_AsStated ==
  (Called /\ Walked) =>
    \A i \in 1..NumField(RootType(argT)) :
      /\ (FirstField(i) /\ ~IsExported(RootType(argT).fields[i].name))
           => (pc # "crashed" /\ err = ErrUnexportedField)
      /\ i \notin Unskipped =>
           /\ RootValue[i] = RootValue0[i]
           /\ \A j \in 1..Len(log) : log[j] # KeyOf(RootLeaf(i))
           /\ Unskipped = {} => err = NoErr

\* C7 witness of the part that holds: a record whose only field is tagged
\* '-' binds without a lookup, a change or an error.
C7_Skipped ==
  /\ Called /\ Walked
  /\ NumField(RootType(argT)) = 1 /\ Unskipped = {}
  /\ err = NoErr /\ log = <<>> /\ RootValue = RootValue0

\* s starts with p.
StartsWith(s, p) == Len(s) >= Len(p) /\ SubSeq(s, 1, Len(p)) = p

\* C8 as stated: a field whose type, or the pointer to its type, implements
\* Unmarshal is a leaf: one lookup is made for the field's own key, the raw
\* string goes to Unmarshal and the field is never walked field by field,
\* also when its underlying type is a record and when it is a pointer.
C8_AsStated ==
  (Called /\ Walked) =>
    \A i \in 1..NumField(RootType(argT)) :
      (FirstField(i) /\ IsExported(RootType(argT).fields[i].name)
         /\ \/ isUnmarshaler(RootType(argT).fields[i].type)
            \/ /\ RootType(argT).fields[i].type.kind = "ptr"
               /\ isUnmarshaler(RootType(argT).fields[i].type.elem))
        => /\ pc # "crashed"
           /\ Len(log) >= 1 /\ log[1] = KeyOf(RootLeaf(i))
           /\ \A j \in 1..Len(log) :
                ~StartsWith(log[j], KeyOf(RootLeaf(i)) \o <<"_">>)
           /\ IsDate(Getenv(env, KeyOf(RootLeaf(i)))) => err = NoErr

\* C8 witness of the part that holds: a field of an integer type with
\* Unmarshal takes its value from one lookup of its own key.
C8_ScalarUnmarshaled ==
  /\ Called /\ Walked /\ err = NoErr
  /\ RootType(argT).fields[1].type = connectionType
  /\ log = <<KeyOf(RootLeaf(1))>>
  /\ RootValue[1] = Unmarshal(connectionType, Getenv(env, KeyOf(RootLeaf(1)))).val

\* The elements a value of a slice of integers or of ShardType records
\* stands for when its elements are separated by sep.
ElementsOf(t, raw, sep) ==
  IF t.elem = Scalar("int")
    THEN [k \in 1..Len(Split(raw, sep)) |-> ParseInt(Split(raw, sep)[k]).val]
    ELSE [k \in 1..Len(sliceTokens(raw, sep)) |->
           << Split(SubSeq(sliceTokens(raw, sep)[k], 2, Len(sliceTokens(raw, sep)[k]) - 1), sep)[1],
              ParseInt(Split(SubSeq(sliceTokens(raw, sep)[k], 2,
                                    Len(sliceTokens(raw, sep)[k]) - 1), sep)[2]).val >>]

\* Field i of the root is an exported slice of integers or of records,
\* empty before the bind, and the first field the walk reaches.
SliceField(i) ==
  /\ FirstField(i)
  /\ IsExported(RootType(argT).fields[i].name)
  /\ RootType(argT).fields[i].type \in { SliceOf(Scalar("int")), SliceOf(ShardType) }
  /\ RootValue0[i].elems = <<>>

\* C10 as stated: a value that comes from the tag's default separates the
\* elements of a collection and the sub-tokens of a record in it by ';',
\* a value from the environment by ','.
C10_AsStated ==
  (Called /\ Walked) =>
    \A i \in 1..NumField(RootType(argT)) :
      SliceField(i) =>
        /\ (Getenv(env, KeyOf(RootLeaf(i))) = <<>>
              /\ RootLeaf(i).ctx.defaultVal \in { <<"7",";","8">>,
                     <<"{","a",";","7","}",";","{","b",";","8","}">> })
             => /\ err = NoErr
                /\ RootValue[i].elems =
                     ElementsOf(RootType(argT).fields[i].type, RootLeaf(i).ctx.defaultVal, ";")
        /\ Getenv(env, KeyOf(RootLeaf(i))) \in { <<"9",",","1">>,
                     <<"{","a",",","7","}",",","{","b",",","8","}">> }
             => /\ err = NoErr
                /\ RootValue[i].elems =
                     ElementsOf(RootType(argT).fields[i].type,
                                Getenv(env, KeyOf(RootLeaf(i))), ",")

\* C10 witness of the part that holds: a value from the environment is
\* separated by ','.
C10_EnvComma ==
  /\ Called /\ Walked /\ err = NoErr
  /\ SliceField(1)
  /\ Getenv(env, KeyOf(RootLeaf(1))) = <<"{","a",",","7","}",",","{","b",",","8","}">>
  /\ RootValue[1].elems = << << <<"a">>, 7 >>, << <<"b">>, 8 >> >>

(* ------------------------------------------------------------------ *)
(* What a failing coercion is checked against                          *)
(* ------------------------------------------------------------------ *)

\* The raw string the lookup of a leaf found, empty when it found none.
Found(lf) == Expected(lf).str

\* The raw string is not of the grammar of a duration, integer, unsigned
\* integer, float, boolean or base64 leaf.
Malformed(t, raw) ==
  CASE t.kind = "duration" -> ~ParseDuration(raw).ok
    [] t.kind = "int" /\ ~t.um -> ~ParseInt(raw).ok
    [] t.kind \in {"uint", "uint8"} /\ ~t.um -> ~ParseUint(raw).ok
    [] t.kind = "float" -> ~ParseFloat(raw).ok
    [] t.kind = "bool" -> ~ParseBool(raw).ok
    [] t = byteSliceType -> ~DecodeString(raw).ok
    [] OTHER -> FALSE

\* Leaf i is an exported leaf whose lookup found a raw string that its type
\* cannot take.
Uncoercible(i) ==
  /\ ~LeafSeq[i].ro
  /\ Found(LeafSeq[i]) # <<>>
  /\ Malformed(LeafSeq[i].type, Found(LeafSeq[i]))

\* C11 as stated: when the lookup of a field found a raw string that cannot
\* be coerced into the field's type, the bind returns an error, and the
\* error of the field the bind stopped on carries that raw string and the
\* list of the keys probed for the field.
C11_AsStated ==
  (Called /\ Walked) =>
    \A i \in 1..Len(LeafSeq) :
      Uncoercible(i) =>
        /\ err # NoErr
        /\ Len(log) = i =>
             /\ err.raw = Found(LeafSeq[i])
             /\ err.key = KeyOf(LeafSeq[i])

\* C11, the part that holds: such a bind never succeeds, it stops on the
\* first such field when no field before it fails, and the error of a
\* malformed duration, integer, unsigned integer, float or boolean carries
\* the raw string.
C11_NeverSuccess ==
  (Called /\ Walked) =>
    \A i \in 1..Len(LeafSeq) :
      Uncoercible(i) =>
        /\ err # NoErr
        /\ Len(log) <= i
        /\ Len(log) = i =>
             err = IF LeafSeq[i].type = byteSliceType THEN ErrCorruptInput
                   ELSE ErrParse(Found(LeafSeq[i]))

\* C11 witness of the part that holds: a bind stopped on a malformed
\* integer and returned the parse error with the raw string.
C11_Refused ==
  /\ Called /\ Walked
  /\ \E i \in 1..Len(LeafSeq) :
       /\ Uncoercible(i) /\ Len(log) = i
       /\ LeafSeq[i].type = Scalar("int")
       /\ err = ErrParse(Found(LeafSeq[i]))
       /\ err.key = <<>>

(* ------------------------------------------------------------------ *)
(* What the bind of a collection is checked against                    *)
(* ------------------------------------------------------------------ *)

\* Field i of the root is an exported slice of integers or of records, the
\* first field the walk reaches, and its lookup found a raw string.
TokenizedField(i) ==
  /\ FirstField(i)
  /\ IsExported(RootType(argT).fields[i].name)
  /\ RootType(argT).fields[i].type \in { SliceOf(Scalar("int")), SliceOf(ShardType) }
  /\ Found(RootLeaf(i)) # <<>>

\* The tokens of a raw string for a slice type, cut at ','.
TokensOf(t, raw) ==
  IF t.elem = Scalar("int") THEN Split(raw, ",") ELSE sliceTokens(raw, ",")

\* The token coerces into an element of the slice type: an integer, or a
\* record of a name and an integer port in braces.
TokenCoerces(t, tok) ==
  IF t.elem = Scalar("int") THEN ParseInt(tok).ok
  ELSE /\ Len(tok) >= 2 /\ tok[1] = "{" /\ tok[Len(tok)] = "}"
       /\ Len(Split(SubSeq(tok, 2, Len(tok) - 1), ",")) = 2
       /\ ParseInt(Split(SubSeq(tok, 2, Len(tok) - 1), ",")[2]).ok

AllTokensCoerce(t, raw) ==
  \A k \in 1..Len(TokensOf(t, raw)) : TokenCoerces(t, TokensOf(t, raw)[k])

\* C12 as stated: after a successful bind of a collection field from a raw
\* value of k tokens the field holds exactly the k coerced elements in
\* token order, whatever it held before; when a token fails to coerce the
\* field holds its original collection.
C12_AsStated ==
  (Called /\ Walked /\ pc # "crashed") =>
    \A i \in 1..NumField(RootType(argT)) :
      TokenizedField(i) =>
        IF AllTokensCoerce(RootType(argT).fields[i].type, Found(RootLeaf(i)))
          THEN err = NoErr =>
                 RootValue[i].elems =
                   ElementsOf(RootType(argT).fields[i].type, Found(RootLeaf(i)), ",")
          ELSE RootValue[i] = RootValue0[i]

\* C12, what the code does: the k coerced elements follow one zero element
\* for every element the field held before the bind; a failing token leaves
\* the original collection.
C12_Appended ==
  (Called /\ Walked /\ pc # "crashed") =>
    \A i \in 1..NumField(RootType(argT)) :
      TokenizedField(i) =>
        IF AllTokensCoerce(RootType(argT).fields[i].type, Found(RootLeaf(i)))
          THEN /\ err = NoErr
               /\ RootValue[i].elems =
                    [k \in 1..Len(RootValue0[i].elems) |->
                       Zero(RootType(argT).fields[i].type.elem)]
                    \o ElementsOf(RootType(argT).fields[i].type, Found(RootLeaf(i)), ",")
          ELSE err # NoErr /\ RootValue[i] = RootValue0[i]

\* C12 witness of the part that holds: a bind with a token that does not
\* coerce leaves the elements an earlier bind put in the field.
C12_Kept ==
  /\ Called /\ Walked /\ err # NoErr /\ pc # "crashed"
  /\ TokenizedField(1)
  /\ ~AllTokensCoerce(RootType(argT).fields[1].type, Found(RootLeaf(1)))
  /\ RootValue0[1].elems # <<>>
  /\ RootValue[1] = RootValue0[1]

(* ------------------------------------------------------------------ *)
(* What the coercion of a record token is checked against              *)
(* ------------------------------------------------------------------ *)

\* Field i of the root is an exported slice of records, the first field the
\* walk reaches, and its lookup found a raw string.
RecordSliceField(i) ==
  /\ FirstField(i)
  /\ IsExported(RootType(argT).fields[i].name)
  /\ RootType(argT).fields[i].type \in { SliceOf(ShardType), SliceOf(LabelType) }
  /\ Found(RootLeaf(i)) # <<>>

\* The record type of the elements of field i.
ElemType(i) == RootType(argT).fields[i].type.elem

\* The tokens of the raw string of field i.
RecordTokens(i) == sliceTokens(Found(RootLeaf(i)), ",")

Wrapped(tok) == Len(tok) >= 2 /\ tok[1] = "{" /\ tok[Len(tok)] = "}"

\* The sub-tokens between the first and the last character of a token.
SubTokens(tok) == Split(SubSeq(tok, 2, Len(tok) - 1), ",")

\* The token has one sub-token for every field of the record t, and every
\* sub-token coerces into its field, a string or an integer.
SubTokensCoerce(t, tok) ==
  /\ Len(tok) >= 2
  /\ Len(SubTokens(tok)) = NumField(t)
  /\ \A f \in 1..NumField(t) :
       t.fields[f].type = Scalar("int") => ParseInt(SubTokens(tok)[f]).ok

\* The record the sub-tokens of a token stand for.
RecordOf(t, tok) ==
  [f \in 1..NumField(t) |->
     IF t.fields[f].type = Scalar("int") THEN ParseInt(SubTokens(tok)[f]).val
     ELSE SubTokens(tok)[f]]

\* C13 as stated: a token coerces into a record of n fields only when it is
\* wrapped in '{' and '}' and holds exactly n sub-tokens, and then field i
\* of the record receives the coercion of sub-token i; every other token
\* gives an error value, a count mismatch one that names the actual and the
\* expected count, and never a crash or a success. (Token k is judged when
\* every token before it is wrapped and coerces.)
C13_AsStated ==
  (Called /\ Walked) =>
    \A i \in 1..NumField(RootType(argT)) :
      RecordSliceField(i) =>
        \A k \in 1..Len(RecordTokens(i)) :
          (\A j \in 1..(k - 1) : /\ Wrapped(RecordTokens(i)[j])
                                 /\ SubTokensCoerce(ElemType(i), RecordTokens(i)[j])) =>
            IF Wrapped(RecordTokens(i)[k])
                 /\ Len(SubTokens(RecordTokens(i)[k])) = NumField(ElemType(i))
              THEN (err = NoErr) =>
                     RootValue[i].elems[Len(RootValue0[i].elems) + k] =
                       RecordOf(ElemType(i), RecordTokens(i)[k])
              ELSE /\ pc # "crashed"
                   /\ err \notin {NoErr, Panic}
                   /\ Wrapped(RecordTokens(i)[k]) =>
                        err = ErrTokenCount(Len(SubTokens(RecordTokens(i)[k])),
                                            NumField(ElemType(i)))

\* C13, what the code does: the first and the last character of a token
\* are dropped whatever they are, a token of fewer than two characters
\* crashes the bind, a count mismatch names the two counts.
C13_Unchecked ==
  (Called /\ Walked) =>
    \A i \in 1..NumField(RootType(argT)) :
      RecordSliceField(i) =>
        \A k \in 1..Len(RecordTokens(i)) :
          (\A j \in 1..(k - 1) : SubTokensCoerce(ElemType(i), RecordTokens(i)[j])) =>
            IF Len(RecordTokens(i)[k]) < 2 THEN pc = "crashed" /\ err = Panic
            ELSE IF Len(SubTokens(RecordTokens(i)[k])) # NumField(ElemType(i))
              THEN err = ErrTokenCount(Len(SubTokens(RecordTokens(i)[k])),
                                       NumField(ElemType(i)))
            ELSE IF ~SubTokensCoerce(ElemType(i), RecordTokens(i)[k])
              THEN err.e = "parse"
            ELSE (err = NoErr) =>
                   RootValue[i].elems[Len(RootValue0[i].elems) + k] =
                     RecordOf(ElemType(i), RecordTokens(i)[k])

\* C13 witness of the part that holds: a token in braces with one sub-token
\* for a record of two fields gives the error that names both counts.
C13_CountMismatch ==
  /\ Called /\ Walked
  /\ RecordSliceField(1)
  /\ Wrapped(RecordTokens(1)[1])
  /\ Len(SubTokens(RecordTokens(1)[1])) = 1
  /\ err = ErrTokenCount(1, 2)
  /\ RootValue[1] = RootValue0[1]

\* A token that is not in braces is taken as a record.
C13_UnwrappedTaken ==
  /\ Called /\ Walked /\ err = NoErr
  /\ RecordSliceField(1)
  /\ ~Wrapped(RecordTokens(1)[1])
  /\ RootValue[1].elems = << << <<"a">> >> >>

\* A token of one character crashes the bind.
C13_ShortCrashes ==
  /\ Called /\ Walked /\ pc = "crashed"
  /\ RecordSliceField(1)
  /\ Len(RecordTokens(1)[1]) < 2

(* ------------------------------------------------------------------ *)
(* What the allocation of pointees is checked against                  *)
(* ------------------------------------------------------------------ *)

\* Field i of the root is an exported pointer field and the first field the
\* walk reaches.
PointerMet(i) ==
  /\ FirstField(i)
  /\ IsExported(RootType(argT).fields[i].name)
  /\ RootType(argT).fields[i].type.kind = "ptr"

\* The argument is a reference to a pointer to a record.
PointerTarget == argT.kind = "ptr" /\ argT.elem.kind = "ptr" /\ argT.elem.elem.kind = "struct"

\* C14 as stated: a pointee is allocated only when the pointer is nil. A
\* top-level pointer to a record and a pointer field met by the walk that
\* are not nil before the bind refer to the same pointee after it, and what
\* the bind did not write in the pointee (an optional field with no value
\* and no default) is as it was.
C14_AsStated ==
  (Called /\ Walked /\ pc # "crashed") =>
    /\ (PointerTarget /\ ~conf0.elem.nil) =>
         /\ ~conf.elem.nil /\ ~conf.elem.fresh
         /\ \A lf \in LeafSet :
              (OptionalAbsent(lf) /\ ~lf.viaPtr) =>
                ValueAt(conf.elem.elem, lf.path) = ValueAt(conf0.elem.elem, lf.path)
    /\ \A i \in 1..NumField(RootType(argT)) :
         (~PointerTarget /\ PointerMet(i) /\ ~RootValue0[i].nil) =>
           /\ ~RootValue[i].nil /\ ~RootValue[i].fresh
           /\ (OptionalAbsent(RootLeaf(i)) /\ RootType(argT).fields[i].type.elem.kind = "string")
                => RootValue[i].elem = RootValue0[i].elem

\* C14, what the code does: the top-level pointer and every pointer field
\* the walk meets refer to a pointee allocated by this bind, nil before or
\* not.
C14_Reallocated ==
  (Called /\ Walked /\ pc # "crashed") =>
    /\ PointerTarget => ~conf.elem.nil /\ conf.elem.fresh
    /\ \A i \in 1..NumField(RootType(argT)) :
         PointerMet(i) => ~RootValue[i].nil /\ RootValue[i].fresh

\* C14 witness of the part that holds: a nil pointer field is set to a
\* pointee of this bind that holds the coerced value.
C14_NilAllocated ==
  /\ Called /\ Walked /\ err = NoErr
  /\ ~PointerTarget /\ PointerMet(1)
  /\ RootValue0[1].nil
  /\ ~RootValue[1].nil /\ RootValue[1].fresh
  /\ RootValue[1].elem = <<"f","o","o">>

\* A pointee that held a value before the bind is replaced by a zero one.
C14_PointeeLost ==
  /\ Called /\ Walked /\ err = NoErr
  /\ ~PointerTarget /\ PointerMet(1)
  /\ OptionalAbsent(RootLeaf(1))
  /\ ~RootValue0[1].nil /\ RootValue0[1].elem = <<"f","o","o">>
  /\ RootValue[1].fresh /\ RootValue[1].elem = <<>>

(* ------------------------------------------------------------------ *)
(* What the walk, taken step by step, is checked against               *)
(* ------------------------------------------------------------------ *)

RECURSIVE SelfReferring(_)
\* The type names a declared type, which refers to itself.
SelfReferring(t) ==
  CASE t.kind = "named" -> TRUE
    [] t.kind \in {"ptr", "slice"} -> SelfReferring(t.elem)
    [] t.kind = "struct" -> \E i \in 1..NumField(t) : SelfReferring(t.fields[i].type)
    [] OTHER -> FALSE

\* The bind has returned or crashed.
WalkOver == pc \in {"called", "crashed"}

\* C15 as stated: every bind call terminates, with success or an error: the
\* walk over any record type, with chains of pointers and with record types
\* that refer to themselves through a pointer field, optional or not, ends
\* after finitely many field visits.
C15_AsStated == (pc = "walking") ~> WalkOver

\* C15, what holds: the walk over a record type that does not refer to
\* itself ends, and a call that took the place of another on the stack
\* never comes to the end of its loop.
C15_PlainTypesEnd == (pc = "walking" /\ ~SelfReferring(argT)) ~> WalkOver

\* The walk taken step by step returns what the bind as a whole returns.
WalkAgrees ==
  (WalkOver /\ ~SelfReferring(argT)) =>
    err = InitWithPrefix(argT, conf, <<>>, env).err

\* Only a walk of a type that refers to itself goes deeper than the stack,
\* and a call past that depth does not return unless with an error.
WalkDeepDescends ==
  (pc = "walking") =>
    /\ Top.deep # 0 => SelfReferring(argT) /\ Top.i <= NumField(Top.t)
    /\ Len(stack) \in 1..MaxDepth

\* C15 witness of the part that holds: the walk of a record that refers to
\* itself through a pointer and has a required field ends with the key not
\* found of the first field below the keys that are set.
C15_RequiredEnds ==
  /\ WalkOver
  /\ argT = PtrTo(Named("ReqNode"))
  /\ Getenv(env, <<"V","A","L">>) = <<"7">>
  /\ Getenv(env, <<"N","E","X","T","_","V","A","L">>) = <<"7">>
  /\ err = ErrKeyNotFound(<<"N","E","X","T","_","N","E","X","T","_","V","A","L">>)

\* A walk in a call that took the place of another: it goes on below the
\* depth of the stack.
C15_GoesOn ==
  /\ pc = "walking"
  /\ argT = PtrTo(Named("OptNode"))
  /\ Top.deep # 0 /\ Top.i = 2

====
